---- MODULE Spec2Model ----
(***************************************************************************)
(* lazyclaw: the data-acquisition core of the terminal dashboard.          *)
(*                                                                         *)
(* The model covers the Bubble Tea controller (App.Update and the          *)
(* commands it returns, which the runtime executes in goroutines of their  *)
(* own), the follow session that CLIAdapter.FollowLogs creates (a          *)
(* subprocess, two reader goroutines and one bounded channel) and the      *)
(* status cache of CLIAdapter.GetFullStatus.                               *)
(*                                                                         *)
(* A command is a closure over the App: it reads the App's fields when it  *)
(* RUNS, not when Update returned it.  Every action below is one step of   *)
(* either Update (one message handled) or of one goroutine.                *)
(***************************************************************************)
EXTENDS Integers, Sequences, FiniteSets

VARIABLES
    \* ---- App (controller) fields
    selectedInstance,   \* App.selectedInstance, an index into cliAdapters
    focusedPane,        \* App.focusedPane
    logChan,            \* App.logChan: the session whose channel it is, Nil before the first start
    logCancel,          \* App.logCtx / App.logCancel: the session whose context it is, Nil before the first start
    logFollowing,       \* App.logFollowing
    logs,               \* App.logs
    openclawStatus,     \* App.openclawStatus
    healthCheckResult,  \* App.healthCheckResult
    connectionState,    \* App.connectionState: Connected and LastError
    refreshMs,          \* App.config.UI.RefreshMs
    logTailLines,       \* App.config.UI.LogTailLines
    cliAdapters,        \* App.cliAdapters
    pendingTicks,       \* the delays of the refresh ticks scheduled and not yet handled
    \* ---- commands returned by Update that have not begun to run
    pendingStart,       \* startLogFollowing commands
    pendingWait,        \* waitForCLILog commands
    pendingStatus,      \* fetchCLIStatus commands
    pendingHealth,      \* fetchCLIHealth commands
    pendingDrain,       \* drain goroutines of stopLogFollowing that have not read a.logChan yet
    \* ---- goroutines in progress
    receivers,          \* session -> number of commands blocked in the select on its channel
    drainers,           \* session -> number of drain goroutines ranging over its channel
    running,            \* fetches in progress: the set of calls that have read their adapter
    msgs,               \* results of finished commands on their way to Update
    \* ---- follow sessions created so far (FollowLogs invocations), in creation order
    sessions,
    \* ---- CLIAdapter cache, one per adapter
    lastStatus, lastError, lastFetched,
    calls,              \* adapter -> number of GetFullStatus calls begun on it
    completed,          \* adapter -> the GetFullStatus calls that returned, in the order of their cache writes
    \* ---- environment budgets and history
    keysLeft, linesLeft, ticksLeft,
    lastWasSwitch,      \* the step just taken handled a switch or reconnect key
    twoInARow,          \* the most recent switch or reconnect key directly followed another one
    dispatched,         \* instance -> follow starts dispatched by the switches that selected it
    \* ---- one call of a function of the adapter layer
    arg,                \* the arguments of the call
    ret                 \* what the call returned, NoRet before it ran

vars == << selectedInstance, focusedPane, logChan, logCancel, logFollowing, logs,
           openclawStatus, healthCheckResult, connectionState, refreshMs, logTailLines, cliAdapters, pendingTicks,
           pendingStart, pendingWait, pendingStatus, pendingHealth, pendingDrain,
           receivers, drainers, running, msgs, sessions,
           lastStatus, lastError, lastFetched, calls, completed,
           keysLeft, linesLeft, ticksLeft, lastWasSwitch, twoInARow, dispatched,
           arg, ret >>

appVars   == << selectedInstance, focusedPane, logChan, logCancel, logFollowing, logs,
               openclawStatus, healthCheckResult, connectionState >>
tickVars  == << refreshMs, logTailLines, cliAdapters, pendingTicks >>
cacheVars == << lastStatus, lastError, lastFetched, calls, completed >>
callVars  == << arg, ret >>
progVars  == << selectedInstance, focusedPane, logChan, logCancel, logFollowing, logs,
               openclawStatus, healthCheckResult, connectionState, refreshMs, logTailLines, cliAdapters, pendingTicks,
               pendingStart, pendingWait, pendingStatus, pendingHealth, pendingDrain,
               receivers, drainers, running, msgs, sessions,
               lastStatus, lastError, lastFetched, calls, completed,
               keysLeft, linesLeft, ticksLeft, lastWasSwitch, twoInARow, dispatched >>

----------------------------------------------------------------------------
(* Bounds *)

NumInstances == 2       \* configured instances (one adapter each)
MaxKeys      == 2       \* switch / reconnect / enter keys pressed in a run
MaxLines     == 1       \* lines the follow subprocesses write in a run, all streams together
MaxTicks     == 1       \* refresh ticks handled in a run
MaxFetchKeys == 2       \* keys pressed in a run of the fetch specification
MaxSwitchKeys  == 1     \* keys pressed in a run of the switch-and-fetch specification
MaxFollowKeys  == 1     \* reconnect keys pressed in a run of the follow specification
MaxFollowLines == 2     \* lines written in a run of the follow specification
ChanCap      == 1       \* capacity of a session channel (100 in the source, scaled down)
LogTailLines == 2       \* config.UI.LogTailLines (500 by default, scaled down)
MaxCfgInstances == 2    \* instances in a configuration handed to initCLIAdapters
MaxNavKeys   == 2       \* keys pressed in a run of the navigation specification

----------------------------------------------------------------------------
(* Values *)

Nil           == 0
DefaultRefreshMs  == 1000   \* UI.RefreshMs of the default configuration
FallbackRefreshMs == 1000   \* the interval scheduleRefresh uses for a value that is not positive
PaneInstances == 0
PaneDetails   == 1
Instances     == 0 .. (NumInstances - 1)
Streams       == {"stdout", "stderr"}
NoError       == [kind |-> "none", inst |-> Nil, call |-> Nil]
NoArg         == << >>
NoRet         == << >>     \* a call that returned holds << its result >>

ConnectionModeLocal == "local"
ConnectionModeSSH   == "ssh"

\* inst.SSH: a nil pointer, or a section with the host it names
NoSSH       == [present |-> FALSE, Host |-> ""]
SSHSections == { NoSSH, [present |-> TRUE, Host |-> ""], [present |-> TRUE, Host |-> "h"] }

\* config.Instances: the instance at position i is named i
InstanceConfigs(n) ==
    { [Name |-> i, Mode |-> m, SSH |-> sec] :
        i \in {n}, m \in {ConnectionModeLocal, ConnectionModeSSH}, sec \in SSHSections }
InstanceLists ==
    UNION { { insts \in [1 .. n -> UNION { InstanceConfigs(i) : i \in 1 .. n }] :
                \A i \in 1 .. n : insts[i].Name = i } : n \in 0 .. MaxCfgInstances }

\* NewCLIAdapter with the InstanceName the caller sets on it
NewCLIAdapter(name) == [InstanceName |-> name, SSHConfig |-> NoSSH]
NewSSHCLIAdapter(name, sshConfig) == [InstanceName |-> name, SSHConfig |-> sshConfig]

\* the adapter of the default local instance, named "Local": no configured instance is at position 0
LocalName    == 0
LocalAdapter == NewCLIAdapter(LocalName)

\* the loop of initCLIAdapters: an ssh instance without an ssh section is passed over
RECURSIVE AdaptersOf(_)
AdaptersOf(insts) ==
    IF insts = << >> THEN << >>
    ELSE LET inst == Head(insts)
             rest == AdaptersOf(Tail(insts))
         IN  IF inst.Mode = ConnectionModeSSH
               THEN IF inst.SSH.present
                      THEN << NewSSHCLIAdapter(inst.Name, inst.SSH) >> \o rest
                      ELSE rest
               ELSE << NewCLIAdapter(inst.Name) >> \o rest

\* initCLIAdapters: the default local adapter when there is no instance or no adapter was built
initCLIAdapters(insts) ==
    IF Len(insts) = 0 THEN << LocalAdapter >>
    ELSE IF AdaptersOf(insts) = << >> THEN << LocalAdapter >>
    ELSE AdaptersOf(insts)

\* config.Instances of the application model: NumInstances local instances
ConfiguredInstances ==
    [i \in 1 .. NumInstances |-> [Name |-> i, Mode |-> ConnectionModeLocal, SSH |-> NoSSH]]

\* len(a.cliAdapters)
NumAdapters == Len(cliAdapters)

\* getCurrentAdapter without the selected index: the first adapter
getFirstAdapter(sel) == 0

\* getCurrentAdapter: the adapter at the selected index, adapter 0 when the index is out of range
getCurrentAdapter(sel) == IF sel < 0 \/ sel >= NumAdapters THEN 0 ELSE sel

SessionIds == 1 .. Len(sessions)

\* a multiset held as a function into Nat
BagAdd(b, x) == [b EXCEPT ![x] = @ + 1]
BagDel(b, x) == [b EXCEPT ![x] = @ - 1]

----------------------------------------------------------------------------
(* Follow sessions.  One is created by every run of the startLogFollowing   *)
(* command: the channel and the context made there, and the subprocess and  *)
(* the two reader goroutines FollowLogs attaches to them.                   *)

NoEvent == [sess |-> Nil, inst |-> 0, src |-> "none", n |-> 0]

\* the event a reader builds from the n-th line of stream st of session k
LineEvent(k, i, st, n) == [sess |-> k, inst |-> i, src |-> st, n |-> n]

\* the synthetic event startLogFollowing returns when FollowLogs fails
LaunchFailureEvent(k, i) == [sess |-> k, inst |-> i, src |-> "lazyclaw", n |-> 0]

\* the session a successful FollowLogs leaves behind
NewSession(i) ==
    [ inst |-> i, done |-> FALSE, proc |-> "running", ch |-> << >>,
      rd   |-> [st \in Streams |-> "scan"],
      ev   |-> [st \in Streams |-> NoEvent],
      read |-> [st \in Streams |-> 0] ]

\* the session left behind when cmd.Start fails: a channel and a context, no process, no reader
FailedSession(i) ==
    [ NewSession(i) EXCEPT !.proc = "failed", !.rd = [st \in Streams |-> "none"] ]

\* context.CancelFunc: cancelling is idempotent, cancelling nil is skipped by the caller
Cancel(ss, k) == IF k = Nil THEN ss ELSE [ss EXCEPT ![k].done = TRUE]

\* a reader whose send has no cancellation case
ReaderNeverSeesDone(s) == FALSE

\* the case <-ctx.Done() of a reader's select is ready
ReaderSeesDone(s) == s.done

\* the case logChan <- event of a reader's select is ready
ChanHasRoom(s) == Len(s.ch) < ChanCap

sessVars == << sessions, linesLeft >>

\* scanner.Scan() returns the next line the subprocess wrote to the stream
ReaderScan(k, st) ==
    /\ sessions[k].proc = "running"
    /\ sessions[k].rd[st] = "scan"
    /\ linesLeft > 0
    /\ linesLeft' = linesLeft - 1
    /\ sessions' = [sessions EXCEPT
            ![k].rd[st]   = "send",
            ![k].read[st] = @ + 1,
            ![k].ev[st]   = LineEvent(k, sessions[k].inst, st, sessions[k].read[st] + 1)]

\* select: case logChan <- event
ReaderSend(k, st) ==
    /\ sessions[k].rd[st] = "send"
    /\ ChanHasRoom(sessions[k])
    /\ sessions' = [sessions EXCEPT
            ![k].ch     = Append(@, sessions[k].ev[st]),
            ![k].rd[st] = "scan",
            ![k].ev[st] = NoEvent]
    /\ UNCHANGED linesLeft

\* select: case <-ctx.Done(): return (the event in hand is dropped)
ReaderCancelled(k, st) ==
    /\ sessions[k].rd[st] = "send"
    /\ ReaderSeesDone(sessions[k])
    /\ sessions' = [sessions EXCEPT ![k].rd[st] = "returned"]
    /\ UNCHANGED linesLeft

\* scanner.Scan() returns false: the subprocess is gone and its pipe is closed
ReaderEOF(k, st) ==
    /\ sessions[k].rd[st] = "scan"
    /\ sessions[k].proc # "running"
    /\ sessions' = [sessions EXCEPT ![k].rd[st] = "returned"]
    /\ UNCHANGED linesLeft

\* the subprocess ends by itself (logs --follow exits or crashes); cmd.Wait() returns in its
\* goroutine and nothing else is done: the channel is not closed, the context not cancelled
ProcessExit(k) ==
    /\ sessions[k].proc = "running"
    /\ sessions' = [sessions EXCEPT ![k].proc = "exited"]
    /\ UNCHANGED linesLeft

\* exec.CommandContext: the subprocess is killed once its context is done
ProcessKill(k) ==
    /\ sessions[k].proc = "running"
    /\ sessions[k].done
    /\ sessions' = [sessions EXCEPT ![k].proc = "killed"]
    /\ UNCHANGED linesLeft

cmdVars == << pendingStart, pendingWait, pendingStatus, pendingHealth, pendingDrain,
              receivers, drainers, running, msgs >>
histVars == << lastWasSwitch, twoInARow, dispatched >>
budgetVars == << keysLeft, ticksLeft >>

\* a step of a goroutine of a session leaves the App, the commands and the caches alone
SessionStep(A) ==
    /\ A
    /\ UNCHANGED << appVars, cacheVars, cmdVars, budgetVars, tickVars >>

----------------------------------------------------------------------------
(* CLIAdapter: the status cache (lastStatus, lastFetched, lastError under   *)
(* one mutex).  A cache is the record of the three fields of one adapter.   *)

Cache(i) == [lastStatus |-> lastStatus[i], lastFetched |-> lastFetched[i], lastError |-> lastError[i]]

\* what a status or health call on adapter i decodes: the payload of its n-th call
Payload(i, n) == [inst |-> i, call |-> n]
NoStatus      == [inst |-> Nil, call |-> Nil]

\* the error of the n-th call on adapter i: runCommand failed ("exec") or json.Unmarshal failed ("parse")
CallError(kind, i, n) == [kind |-> kind, inst |-> i, call |-> n]
FailureKinds == {"exec", "parse"}

\* a failure path that also drops the cached snapshot
GetFullStatusFailBlanks(c, err) == [c EXCEPT !.lastError = err, !.lastStatus = NoStatus]

\* a failure path that returns the error without recording it
GetFullStatusFailSilent(c, err) == c

\* GetFullStatus, both failure paths: c.lastError = err under the lock, nothing else
GetFullStatusFail(c, err) == [c EXCEPT !.lastError = err]

\* a success path that leaves the cached error in place
GetFullStatusOkKeepsError(c, status) ==
    [c EXCEPT !.lastStatus = status, !.lastFetched = @ + 1]

\* a success path that keeps the cached snapshot of a call begun later
GetFullStatusOkIfNewer(c, status) ==
    [lastStatus  |-> IF c.lastStatus.call > status.call THEN c.lastStatus ELSE status,
     lastFetched |-> c.lastFetched + 1,
     lastError   |-> NoError]

\* GetFullStatus, success path: the three assignments under one Lock/Unlock
GetFullStatusOk(c, status) ==
    [lastStatus |-> status, lastFetched |-> c.lastFetched + 1, lastError |-> NoError]

\* GetCachedStatus / GetLastError: reads under RLock
GetCachedStatus(i) == lastStatus[i]
GetLastError(i)    == lastError[i]

\* the cache of adapter i becomes c
StoreCache(i, c) ==
    /\ lastStatus'  = [lastStatus  EXCEPT ![i] = c.lastStatus]
    /\ lastFetched' = [lastFetched EXCEPT ![i] = c.lastFetched]
    /\ lastError'   = [lastError   EXCEPT ![i] = c.lastError]

\* err.Error(): the text of the error of a status call
ErrorText(err) ==
    [text |-> IF err.kind = "parse" THEN "failed to parse status JSON" ELSE "command failed",
     inst |-> err.inst, call |-> err.call]

\* the empty string
NoText == [text |-> "", inst |-> Nil, call |-> Nil]

\* the Gateway section of a decoded status: absent, or Reachable and an optional Error
NoGateway     == [present |-> FALSE, Reachable |-> FALSE, Error |-> FALSE]
GatewayValues == {NoGateway} \cup
                 {[present |-> TRUE, Reachable |-> r, Error |-> e] : r, e \in BOOLEAN}

\* *msg.Status.Gateway.Error: the error text the gateway section of a status carries
GatewayErrorText(status) == [text |-> "gateway error", inst |-> status.inst, call |-> status.call]

\* ConnectionState{}: not connected, no error text
NoConnection == [Connected |-> FALSE, LastError |-> NoText]

----------------------------------------------------------------------------
(* Messages to Update *)

CLILogMsg(e)         == [type |-> "CLILogMsg", Event |-> e, Status |-> NoStatus, Error |-> NoError]
CLIStatusMsg(st, er) == [type |-> "CLIStatusMsg", Event |-> NoEvent, Status |-> st, Error |-> er]
CLIHealthMsg(r, er)  == [type |-> "CLIHealthMsg", Event |-> NoEvent, Status |-> r, Error |-> er]

----------------------------------------------------------------------------
(* Commands: each runs in a goroutine of its own once Update has returned it *)

\* startLogFollowing, up to the select: make the channel and the context, call FollowLogs
\* (launched says whether cmd.Start succeeded)
StartLogFollowing(launched) ==
    /\ pendingStart > 0
    /\ pendingStart' = pendingStart - 1
    /\ LET i == getCurrentAdapter(selectedInstance)
           k == Len(sessions) + 1
       IN  /\ logChan'   = k
           /\ logCancel' = k
           /\ IF launched
                THEN /\ sessions'     = Append(sessions, NewSession(i))
                     /\ logFollowing' = TRUE
                     /\ receivers'    = BagAdd(receivers, k)
                     /\ UNCHANGED msgs
                ELSE /\ sessions'     = Append(sessions, FailedSession(i))
                     /\ msgs'         = msgs \cup {CLILogMsg(LaunchFailureEvent(k, i))}
                     /\ UNCHANGED << logFollowing, receivers >>
    /\ UNCHANGED << selectedInstance, focusedPane, logs, openclawStatus, healthCheckResult,
                    connectionState, pendingWait, pendingStatus, pendingHealth, pendingDrain, drainers, running,
                    cacheVars, budgetVars, tickVars, linesLeft >>

\* waitForCLILog, up to the select: a nil channel returns at once, otherwise block on
\* the channel and the context the App holds now
WaitForCLILog ==
    /\ pendingWait > 0
    /\ pendingWait' = pendingWait - 1
    /\ receivers' = IF logChan = Nil THEN receivers ELSE BagAdd(receivers, logChan)
    /\ UNCHANGED << appVars, pendingStart, pendingStatus, pendingHealth, pendingDrain,
                    drainers, running, msgs, sessVars, cacheVars, budgetVars, tickVars >>

\* the select of startLogFollowing / waitForCLILog: case event, ok := <-a.logChan
\* (the channel is never closed, so ok is always true)
SelectEvent(k) ==
    /\ receivers[k] > 0
    /\ sessions[k].ch # << >>
    /\ receivers' = BagDel(receivers, k)
    /\ msgs' = msgs \cup {CLILogMsg(Head(sessions[k].ch))}
    /\ sessions' = [sessions EXCEPT ![k].ch = Tail(@)]
    /\ UNCHANGED << appVars, pendingStart, pendingWait, pendingStatus, pendingHealth,
                    pendingDrain, drainers, running, cacheVars, budgetVars, tickVars, linesLeft >>

\* the select of startLogFollowing / waitForCLILog: case <-a.logCtx.Done(): return nil
SelectDone(k) ==
    /\ receivers[k] > 0
    /\ sessions[k].done
    /\ receivers' = BagDel(receivers, k)
    /\ UNCHANGED << appVars, pendingStart, pendingWait, pendingStatus, pendingHealth,
                    pendingDrain, drainers, running, msgs, sessVars, cacheVars, budgetVars, tickVars >>

\* the goroutine stopLogFollowing starts: for range a.logChan reads the field when it runs
DrainStart ==
    /\ pendingDrain > 0
    /\ pendingDrain' = pendingDrain - 1
    /\ drainers' = IF logChan = Nil THEN drainers ELSE BagAdd(drainers, logChan)
    /\ UNCHANGED << appVars, pendingStart, pendingWait, pendingStatus, pendingHealth,
                    receivers, running, msgs, sessVars, cacheVars, budgetVars, tickVars >>

\* one iteration of for range a.logChan: an event is received and discarded
DrainEvent(k) ==
    /\ drainers[k] > 0
    /\ sessions[k].ch # << >>
    /\ sessions' = [sessions EXCEPT ![k].ch = Tail(@)]
    /\ UNCHANGED << appVars, cmdVars, cacheVars, budgetVars, tickVars, linesLeft >>

\* runCommand: the process of the n-th call on adapter i, made by exec.Command in
\* runLocalCommand and in runSSHCommand alike: no context is attached to it
RunCommand(kind, i, n) == [kind |-> kind, inst |-> i, call |-> n, ctx |-> Nil]

\* a command reads the current adapter and calls it: the call is in progress
BeginCall(kind) ==
    LET i == getCurrentAdapter(selectedInstance)
    IN  /\ calls' = [calls EXCEPT ![i] = @ + 1]
        /\ running' = running \cup {RunCommand(kind, i, calls[i] + 1)}

\* fetchCLIStatus, first half: adapter := a.getCurrentAdapter(); adapter.GetFullStatus() begins
FetchCLIStatusBegin ==
    /\ pendingStatus > 0
    /\ pendingStatus' = pendingStatus - 1
    /\ BeginCall("status")
    /\ UNCHANGED << appVars, pendingStart, pendingWait, pendingHealth, pendingDrain, receivers,
                    drainers, msgs, sessVars, lastStatus, lastError, lastFetched, completed,
                    budgetVars, tickVars >>

\* fetchCLIHealth, first half: adapter := a.getCurrentAdapter(); adapter.GetHealthSnapshot() begins
FetchCLIHealthBegin ==
    /\ pendingHealth > 0
    /\ pendingHealth' = pendingHealth - 1
    /\ BeginCall("health")
    /\ UNCHANGED << appVars, pendingStart, pendingWait, pendingStatus, pendingDrain, receivers,
                    drainers, msgs, sessVars, lastStatus, lastError, lastFetched, completed,
                    budgetVars, tickVars >>

\* fetchCLIStatus, second half: GetFullStatus returns an error, CLIStatusMsg{nil, err}
FetchCLIStatusFail(f, kind) ==
    /\ f \in running /\ f.kind = "status"
    /\ LET err == CallError(kind, f.inst, f.call)
       IN  /\ StoreCache(f.inst, GetFullStatusFail(Cache(f.inst), err))
           /\ msgs' = msgs \cup {CLIStatusMsg(NoStatus, err)}
    /\ completed' = [completed EXCEPT ![f.inst] = Append(@, [call |-> f.call, ok |-> FALSE])]
    /\ running' = running \ {f}
    /\ UNCHANGED << appVars, pendingStart, pendingWait, pendingStatus, pendingHealth, pendingDrain,
                    receivers, drainers, sessVars, calls, budgetVars, tickVars >>

\* fetchCLIStatus, second half: GetFullStatus returns the decoded status, CLIStatusMsg{status, nil}
FetchCLIStatusOk(f) ==
    /\ f \in running /\ f.kind = "status"
    /\ StoreCache(f.inst, GetFullStatusOk(Cache(f.inst), Payload(f.inst, f.call)))
    /\ msgs' = msgs \cup {CLIStatusMsg(Payload(f.inst, f.call), NoError)}
    /\ completed' = [completed EXCEPT ![f.inst] = Append(@, [call |-> f.call, ok |-> TRUE])]
    /\ running' = running \ {f}
    /\ UNCHANGED << appVars, pendingStart, pendingWait, pendingStatus, pendingHealth, pendingDrain,
                    receivers, drainers, sessVars, calls, budgetVars, tickVars >>

\* fetchCLIHealth, second half: GetHealthSnapshot returns, CLIHealthMsg{result, err}
FetchCLIHealthEnd(f, ok) ==
    /\ f \in running /\ f.kind = "health"
    /\ msgs' = msgs \cup { IF ok THEN CLIHealthMsg(Payload(f.inst, f.call), NoError)
                                 ELSE CLIHealthMsg(NoStatus, CallError("exec", f.inst, f.call)) }
    /\ running' = running \ {f}
    /\ UNCHANGED << appVars, pendingStart, pendingWait, pendingStatus, pendingHealth, pendingDrain,
                    receivers, drainers, sessVars, cacheVars, budgetVars, tickVars >>

----------------------------------------------------------------------------
(* App.Update: one action per message handled.  The mode is ModeNormal and  *)
(* mockMode is false throughout.                                            *)

\* an append that never trims
AppendLogUnbounded(l, e) == Append(l, e)

\* a.logs = append(a.logs, e); if len(a.logs) > LogTailLines { a.logs = a.logs[1:] }
AppendLog(l, e) == LET l2 == Append(l, e) IN IF Len(l2) > logTailLines THEN Tail(l2) ELSE l2

\* a stop that returns only once the subprocess of the session has terminated
stopLogFollowingAwaitsExit ==
    /\ logCancel # Nil => sessions[logCancel].proc # "running"
    /\ sessions' = Cancel(sessions, logCancel)
    /\ logFollowing' = FALSE
    /\ pendingDrain' = IF logChan # Nil THEN pendingDrain + 1 ELSE pendingDrain

\* stopLogFollowing: cancel what a.logCancel holds, clear the flag, start a drain goroutine
stopLogFollowing ==
    /\ sessions' = Cancel(sessions, logCancel)
    /\ logFollowing' = FALSE
    /\ pendingDrain' = IF logChan # Nil THEN pendingDrain + 1 ELSE pendingDrain

\* switchInstance: clear the display state, stop the session, dispatch the three commands
switchInstance ==
    /\ openclawStatus' = NoStatus
    /\ healthCheckResult' = NoStatus
    /\ logs' = << >>
    /\ stopLogFollowing
    /\ pendingStatus' = pendingStatus + 1
    /\ pendingHealth' = pendingHealth + 1
    /\ pendingStart'  = pendingStart + 1

\* what every key that switches instance or reconnects leaves alone
SwitchStep ==
    /\ keysLeft > 0
    /\ keysLeft' = keysLeft - 1
    /\ UNCHANGED << focusedPane, logChan, logCancel, connectionState, pendingWait, receivers,
                    drainers, running, msgs, cacheVars, linesLeft, ticksLeft, tickVars >>

\* case key.Matches(msg, a.keys.Up)
KeyUp ==
    /\ focusedPane = PaneInstances /\ NumAdapters > 1
    /\ selectedInstance > 0
    /\ selectedInstance' = selectedInstance - 1
    /\ switchInstance
    /\ SwitchStep

\* case key.Matches(msg, a.keys.Down)
KeyDown ==
    /\ focusedPane = PaneInstances /\ NumAdapters > 1
    /\ selectedInstance < NumAdapters - 1
    /\ selectedInstance' = selectedInstance + 1
    /\ switchInstance
    /\ SwitchStep

\* case key.Matches(msg, a.keys.Reconnect), mockMode false
KeyReconnect ==
    /\ pendingStatus' = pendingStatus + 1
    /\ pendingHealth' = pendingHealth + 1
    /\ stopLogFollowing
    /\ pendingStart' = pendingStart + 1
    /\ SwitchStep
    /\ UNCHANGED << selectedInstance, logs, openclawStatus, healthCheckResult >>

\* case key.Matches(msg, a.keys.Tab) / a.keys.ShiftTab: the other pane gets the focus
KeyTab ==
    /\ focusedPane' = IF focusedPane = PaneInstances THEN PaneDetails ELSE PaneInstances
    /\ UNCHANGED << selectedInstance, logChan, logCancel, logFollowing, logs, openclawStatus,
                    healthCheckResult, connectionState, cmdVars, sessVars, cacheVars,
                    budgetVars, tickVars >>

\* case key.Matches(msg, a.keys.Enter) with the instances pane focused
KeyEnter ==
    /\ keysLeft > 0
    /\ keysLeft' = keysLeft - 1
    /\ focusedPane = PaneInstances
    /\ focusedPane' = PaneDetails
    /\ pendingStatus' = pendingStatus + 1
    /\ pendingHealth' = pendingHealth + 1
    /\ UNCHANGED << selectedInstance, logChan, logCancel, logFollowing, logs, openclawStatus,
                    healthCheckResult, connectionState, pendingStart, pendingWait, pendingDrain,
                    receivers, drainers, running, msgs, sessVars, cacheVars, ticksLeft, tickVars >>

\* case CLILogMsg
UpdateCLILogMsg(m) ==
    /\ m \in msgs /\ m.type = "CLILogMsg"
    /\ msgs' = msgs \ {m}
    /\ logs' = AppendLog(logs, m.Event)
    /\ pendingWait' = IF logFollowing THEN pendingWait + 1 ELSE pendingWait
    /\ UNCHANGED << selectedInstance, focusedPane, logChan, logCancel, logFollowing,
                    openclawStatus, healthCheckResult, connectionState, pendingStart,
                    pendingStatus, pendingHealth,
                    pendingDrain, receivers, drainers, running, sessVars, cacheVars, budgetVars, tickVars >>

\* a CLIStatusMsg handler that blanks the display when the fetch failed
StatusErrorBlanks(shown, conn, m) ==
    [status |-> NoStatus, conn |-> [Connected |-> FALSE, LastError |-> ErrorText(m.Error)]]

\* case CLIStatusMsg, msg.Error != nil: not connected, the error text is the last error
StatusError(shown, conn, m) ==
    [status |-> shown, conn |-> [Connected |-> FALSE, LastError |-> ErrorText(m.Error)]]

\* case CLIStatusMsg, msg.Error == nil: the status is displayed and, when it has a
\* gateway section gw, the connection state follows it
StatusOk(shown, conn, m, gw) ==
    [status |-> m.Status,
     conn   |-> IF gw.present
                  THEN [Connected |-> gw.Reachable,
                        LastError |-> IF gw.Error THEN GatewayErrorText(m.Status) ELSE NoText]
                  ELSE conn]

\* case CLIStatusMsg (the gateway section of the status carried is any of GatewayValues)
UpdateCLIStatusMsg(m) ==
    /\ m \in msgs /\ m.type = "CLIStatusMsg"
    /\ msgs' = msgs \ {m}
    /\ \E gw \in GatewayValues :
         LET r == IF m.Error # NoError
                    THEN StatusError(openclawStatus, connectionState, m)
                    ELSE StatusOk(openclawStatus, connectionState, m, gw)
         IN  /\ openclawStatus' = r.status
             /\ connectionState' = r.conn
    /\ UNCHANGED << selectedInstance, focusedPane, logChan, logCancel, logFollowing, logs,
                    healthCheckResult, pendingStart, pendingWait, pendingStatus, pendingHealth,
                    pendingDrain, receivers, drainers, running, sessVars, cacheVars, budgetVars,
                    tickVars >>

\* case CLIHealthMsg
UpdateCLIHealthMsg(m) ==
    /\ m \in msgs /\ m.type = "CLIHealthMsg"
    /\ msgs' = msgs \ {m}
    /\ healthCheckResult' = IF m.Error = NoError THEN m.Status ELSE healthCheckResult
    /\ UNCHANGED << selectedInstance, focusedPane, logChan, logCancel, logFollowing, logs,
                    openclawStatus, connectionState, pendingStart, pendingWait, pendingStatus, pendingHealth,
                    pendingDrain, receivers, drainers, running, sessVars, cacheVars, budgetVars, tickVars >>

\* a scheduleRefresh that takes the configured value as it is
scheduleRefreshAsConfigured(ms) == ms

\* scheduleRefresh: the delay of the tick it schedules
scheduleRefresh(ms) == IF ms <= 0 THEN FallbackRefreshMs ELSE ms

\* case RefreshTickMsg: fetch the status again (mockMode is false and getCurrentAdapter
\* is never nil once initCLIAdapters has run) and schedule the next tick
UpdateRefreshTick ==
    /\ ticksLeft > 0
    /\ ticksLeft' = ticksLeft - 1
    /\ pendingTicks # << >>
    /\ pendingStatus' = pendingStatus + 1
    /\ pendingTicks' = Append(Tail(pendingTicks), scheduleRefresh(refreshMs))
    /\ UNCHANGED << appVars, pendingStart, pendingWait, pendingHealth, pendingDrain, receivers,
                    drainers, running, msgs, sessVars, cacheVars, keysLeft, refreshMs, logTailLines,
                    cliAdapters >>

----------------------------------------------------------------------------
(* Specifications *)

\* one start command from Init and one from every key
MaxSessions == 1 + MaxKeys + MaxFetchKeys + MaxSwitchKeys + MaxFollowKeys

\* NewApp, then App.Init with mockMode false: the adapters are built and the status fetch,
\* the health fetch, the follow start and the first refresh tick are dispatched
InitAppOn(keys, lines, ticks, ms, tail, insts) ==
    /\ selectedInstance = 0
    /\ logTailLines = tail
    /\ cliAdapters = initCLIAdapters(insts)
    /\ connectionState = NoConnection
    /\ refreshMs = ms
    /\ pendingTicks = << scheduleRefresh(ms) >>
    /\ focusedPane = PaneInstances
    /\ logChan = Nil /\ logCancel = Nil /\ logFollowing = FALSE
    /\ logs = << >>
    /\ openclawStatus = NoStatus /\ healthCheckResult = NoStatus
    /\ pendingStart = 1 /\ pendingStatus = 1 /\ pendingHealth = 1
    /\ pendingWait = 0 /\ pendingDrain = 0
    /\ receivers = [k \in 1 .. MaxSessions |-> 0]
    /\ drainers  = [k \in 1 .. MaxSessions |-> 0]
    /\ running = {} /\ msgs = {}
    /\ sessions = << >>
    /\ lastStatus  = [i \in Instances |-> NoStatus]
    /\ lastError   = [i \in Instances |-> NoError]
    /\ lastFetched = [i \in Instances |-> 0]
    /\ calls       = [i \in Instances |-> 0]
    /\ completed   = [i \in Instances |-> << >>]
    /\ keysLeft = keys /\ linesLeft = lines /\ ticksLeft = ticks
    /\ lastWasSwitch = FALSE /\ twoInARow = FALSE
    /\ dispatched = [i \in Instances |-> 0]

\* the configuration of the application model
InitAppWith(keys, lines, ticks, ms, tail) ==
    InitAppOn(keys, lines, ticks, ms, tail, ConfiguredInstances)

\* the configuration with the scaled-down LogTailLines
InitApp(keys, lines, ticks, ms) == InitAppWith(keys, lines, ticks, ms, LogTailLines)

\* the application alone: no call of the adapter layer is singled out
InitConfig(keys, lines, ticks, ms) ==
    InitApp(keys, lines, ticks, ms) /\ arg = NoArg /\ ret = NoRet

\* the default configuration
InitWith(keys, lines, ticks) == InitConfig(keys, lines, ticks, DefaultRefreshMs)

\* history: whether the step handled a switch or reconnect key
AsSwitch(A) ==
    /\ A
    /\ lastWasSwitch' = TRUE /\ twoInARow' = lastWasSwitch
    /\ dispatched' = IF selectedInstance' # selectedInstance
                       THEN [dispatched EXCEPT ![selectedInstance'] = @ + 1]
                       ELSE dispatched
    /\ UNCHANGED callVars
AsOther(A)  == A /\ lastWasSwitch' = FALSE /\ UNCHANGED << twoInARow, dispatched, callVars >>
NoHist(A)   == A /\ UNCHANGED << histVars, callVars >>

\* a step of one of the goroutines of a follow session
ReaderStep(k, st) ==
    \/ SessionStep(ReaderScan(k, st))
    \/ SessionStep(ReaderSend(k, st))
    \/ SessionStep(ReaderCancelled(k, st))
    \/ SessionStep(ReaderEOF(k, st))

Init == InitWith(MaxKeys, MaxLines, 0)

\* the switch protocol and the follow sessions; the fetch commands stay dispatched
Next ==
    \/ AsSwitch(KeyUp)
    \/ AsSwitch(KeyDown)
    \/ AsSwitch(KeyReconnect)
    \/ \E launched \in BOOLEAN : AsOther(StartLogFollowing(launched))
    \/ AsOther(WaitForCLILog)
    \/ AsOther(DrainStart)
    \/ \E k \in SessionIds : AsOther(SelectEvent(k))
    \/ \E k \in SessionIds : AsOther(SelectDone(k))
    \/ \E k \in SessionIds : AsOther(DrainEvent(k))
    \/ \E k \in SessionIds, st \in Streams : AsOther(SessionStep(ReaderScan(k, st)))
    \/ \E k \in SessionIds, st \in Streams : AsOther(SessionStep(ReaderSend(k, st)))
    \/ \E k \in SessionIds, st \in Streams : AsOther(SessionStep(ReaderCancelled(k, st)))
    \/ \E k \in SessionIds, st \in Streams : AsOther(SessionStep(ReaderEOF(k, st)))
    \/ \E k \in SessionIds : AsOther(SessionStep(ProcessKill(k)))
    \/ \E m \in msgs : AsOther(UpdateCLILogMsg(m))

Spec == Init /\ [][Next]_vars

InitFetch == InitWith(MaxFetchKeys, 0, MaxTicks)

\* the status fetches of the keys and of the refresh tick, and the status cache; the
\* follow and health commands stay dispatched and the results stay undelivered
NextFetch ==
    \/ NoHist(KeyUp)
    \/ NoHist(KeyDown)
    \/ NoHist(UpdateRefreshTick)
    \/ NoHist(FetchCLIStatusBegin)
    \/ \E f \in running, kind \in FailureKinds : NoHist(FetchCLIStatusFail(f, kind))
    \/ \E f \in running : NoHist(FetchCLIStatusOk(f))

SpecFetch == InitFetch /\ [][NextFetch]_vars

\* the switch protocol and both fetch commands; with the one key of a run the
\* selection leaves the first instance by Down
NextSwitch ==
    \/ NoHist(KeyDown)
    \/ NoHist(KeyReconnect)
    \/ NoHist(KeyTab)
    \/ NoHist(KeyEnter)
    \/ NoHist(FetchCLIStatusBegin)
    \/ NoHist(FetchCLIHealthBegin)
    \/ \E f \in running, kind \in FailureKinds : NoHist(FetchCLIStatusFail(f, kind))
    \/ \E f \in running : NoHist(FetchCLIStatusOk(f))
    \/ \E f \in running, ok \in BOOLEAN : NoHist(FetchCLIHealthEnd(f, ok))
    \/ \E m \in msgs : NoHist(UpdateCLIStatusMsg(m))
    \/ \E m \in msgs : NoHist(UpdateCLIHealthMsg(m))

SpecSwitch == InitWith(MaxSwitchKeys, 0, 0) /\ [][NextSwitch]_vars

InitFollow == InitWith(MaxFollowKeys, MaxFollowLines, 0)

\* the follow sessions of one instance and their stop by reconnect: the commands
\* blocked in the select may receive or not, the drain goroutines are not scheduled
NextFollow ==
    \/ NoHist(KeyReconnect)
    \/ \E launched \in BOOLEAN : NoHist(StartLogFollowing(launched))
    \/ \E k \in SessionIds : NoHist(SelectEvent(k))
    \/ \E k \in SessionIds : NoHist(SelectDone(k))
    \/ \E k \in SessionIds, st \in Streams : NoHist(SessionStep(ReaderScan(k, st)))
    \/ \E k \in SessionIds, st \in Streams : NoHist(SessionStep(ReaderSend(k, st)))
    \/ \E k \in SessionIds, st \in Streams : NoHist(SessionStep(ReaderCancelled(k, st)))
    \/ \E k \in SessionIds, st \in Streams : NoHist(SessionStep(ReaderEOF(k, st)))
    \/ \E k \in SessionIds : NoHist(SessionStep(ProcessKill(k)))

\* a step of a reader goroutine or of the runtime killing a cancelled subprocess
GoroutineStep ==
    \/ \E k \in SessionIds, st \in Streams : NoHist(ReaderStep(k, st))
    \/ \E k \in SessionIds : NoHist(SessionStep(ProcessKill(k)))

\* the Go scheduler does not stop while a goroutine can take a step, and the runtime
\* kills the subprocess of a cancelled context; nothing obliges the consumer to receive
FairFollow == WF_vars(GoroutineStep)

SpecFollow == InitFollow /\ [][NextFollow]_vars /\ FairFollow

\* the path of a log event from the subprocess to the log buffer, with one reconnect:
\* the readers, the receiving commands and the controller
NextOrder ==
    \/ NoHist(KeyReconnect)
    \/ \E launched \in BOOLEAN : NoHist(StartLogFollowing(launched))
    \/ NoHist(WaitForCLILog)
    \/ \E k \in SessionIds : NoHist(SelectEvent(k))
    \/ \E k \in SessionIds, st \in Streams : NoHist(SessionStep(ReaderScan(k, st)))
    \/ \E k \in SessionIds, st \in Streams : NoHist(SessionStep(ReaderSend(k, st)))
    \/ \E m \in msgs : NoHist(UpdateCLILogMsg(m))

SpecOrder == InitFollow /\ [][NextOrder]_vars

\* values of UI.RefreshMs in the configuration file
RefreshMsValues == {-1, 0, 250, DefaultRefreshMs}

InitTick == \E ms \in RefreshMsValues : InitConfig(0, 0, MaxTicks, ms)

\* the refresh tick, the status fetches of Init and of the tick, and their results
\* handled by the controller; no key is pressed
NextTick ==
    \/ NoHist(UpdateRefreshTick)
    \/ NoHist(FetchCLIStatusBegin)
    \/ \E f \in running, kind \in FailureKinds : NoHist(FetchCLIStatusFail(f, kind))
    \/ \E f \in running : NoHist(FetchCLIStatusOk(f))
    \/ \E m \in msgs : NoHist(UpdateCLIStatusMsg(m))

SpecTick == InitTick /\ [][NextTick]_vars

----------------------------------------------------------------------------
(* Follow sessions and the switch protocol *)

\* a session is active: its subprocess was started and its context is not cancelled
Active(k) == sessions[k].proc # "failed" /\ ~sessions[k].done

ActiveOn(i) == {k \in SessionIds : Active(k) /\ sessions[k].inst = i}

\* C1: in every reachable state at most one follow session is active per instance
\* (its subprocess started, its context not cancelled).
C1_AtMostOneActivePerInstance ==
    \A i \in Instances : Cardinality(ActiveOn(i)) <= 1

\* C2: when two switch or reconnect keys were handled one directly after the other and
\* every start command dispatched has run (each launching its subprocess), exactly one
\* follow session is active for the selected instance and none for any other instance.
C2_SwitchTwiceOneSession ==
    ( /\ twoInARow
      /\ pendingStart = 0
      /\ \A k \in SessionIds : sessions[k].proc # "failed" )
    => /\ Cardinality(ActiveOn(selectedInstance)) = 1
       /\ \A i \in Instances \ {selectedInstance} : ActiveOn(i) = {}

\* C3: no subprocess is leaked: every follow subprocess that is alive and not being
\* terminated is the one whose cancel handle App.logCancel holds.
C3_NoOrphanSubprocess ==
    \A k \in SessionIds :
        (sessions[k].proc = "running" /\ ~sessions[k].done) => logCancel = k

\* C4: no cross-delivery: every event in the log buffer that was read from a session
\* channel was produced by a follow session started for the instance that is current
\* (the buffer is emptied by every switch).
C4_NoCrossDelivery ==
    \A n \in 1 .. Len(logs) :
        logs[n].src \in Streams => logs[n].inst = selectedInstance

\* C11: after stop on a session no further event is delivered on its channel: no reader
\* sends on the channel of a session whose context is cancelled, and no CLILogMsg
\* carrying an event of such a session is handled by the controller.
C11_NoDeliveryAfterStop ==
    [][ /\ \A k \in SessionIds :
             sessions[k].done => Len(sessions'[k].ch) <= Len(sessions[k].ch)
        /\ \A m \in msgs \ msgs' :
             (m.type = "CLILogMsg" /\ m.Event.src \in Streams)
             => ~sessions[m.Event.sess].done ]_vars

\* C12: the subprocess of a new follow session is started only after the subprocess of
\* the previous session (the one the App holds when the start command runs) has
\* terminated.
C12_StartAfterTermination ==
    [][ ( /\ Len(sessions') > Len(sessions)
          /\ sessions'[Len(sessions')].proc = "running"
          /\ logCancel # Nil )
        => sessions[logCancel].proc # "running" ]_vars

\* the follow sessions created for instance i, launched or not
SessionsFor(i) == {k \in SessionIds : sessions[k].inst = i}

\* C13: every follow start a switch dispatches acts on the adapter of the instance the
\* switch selected: once every start command has run, each instance has at least as
\* many follow sessions created for it as switches selected it.
C13_SwitchActsOnNewInstance ==
    pendingStart = 0 => \A i \in Instances : Cardinality(SessionsFor(i)) >= dispatched[i]

\* C14: no event of a session whose context is not cancelled is discarded: a step that
\* takes an event off the channel of such a session hands it to the controller as a
\* CLILogMsg.
C14_NoLossBeforeCancel ==
    [][ \A k \in SessionIds :
          (~sessions[k].done /\ Len(sessions'[k].ch) < Len(sessions[k].ch))
          => CLILogMsg(Head(sessions[k].ch)) \in msgs' ]_vars

\* C16: when the controller handles the synthetic event of a launch failure it appends
\* it to the log buffer, the follow is not marked running and no log receive is
\* scheduled.
C16_LaunchFailureNonFatal ==
    [][ \A m \in msgs \ msgs' :
          (m.type = "CLILogMsg" /\ m.Event.src = "lazyclaw")
          => /\ logs' = AppendLog(logs, m.Event)
             /\ ~logFollowing'
             /\ pendingWait' = pendingWait ]_vars

\* C15: events of one stream of one session are in the log buffer in the order the
\* subprocess wrote their lines.
C15_StreamOrderPreserved ==
    \A a, b \in 1 .. Len(logs) :
        ( /\ a < b
          /\ logs[a].src \in Streams
          /\ logs[a].sess = logs[b].sess
          /\ logs[a].src = logs[b].src )
        => logs[a].n < logs[b].n

----------------------------------------------------------------------------
(* Display state and the status cache *)

\* C5: the displayed snapshot and the displayed health result are empty or the result
\* of a fetch executed against the adapter of the instance that is current.
C5_NoStaleDisplay ==
    /\ openclawStatus # NoStatus => openclawStatus.inst = selectedInstance
    /\ healthCheckResult # NoStatus => healthCheckResult.inst = selectedInstance

\* the outcome of the call whose cache write came last on adapter i
LastCompleted(i) == completed[i][Len(completed[i])]

\* the position in completed[i] of the last successful call, 0 when there is none
LastOkIndex(i) ==
    LET oks == {n \in 1 .. Len(completed[i]) : completed[i][n].ok}
    IN  IF oks = {} THEN 0 ELSE CHOOSE n \in oks : \A o \in oks : o <= n

\* C6: a GetFullStatus call that fails (the command or the decoding) leaves the cached
\* snapshot exactly as it was, 'no snapshot' included, and GetLastError returns its error.
C6_FailureKeepsSnapshot ==
    [][ \A m \in msgs' \ msgs :
          (m.type = "CLIStatusMsg" /\ m.Error # NoError)
          => /\ lastStatus'[m.Error.inst] = lastStatus[m.Error.inst]
             /\ lastError'[m.Error.inst] = m.Error ]_vars

\* a decoding failure came last on an adapter that holds a snapshot
C6_Witness ==
    \E i \in Instances :
        /\ completed[i] # << >>
        /\ ~LastCompleted(i).ok
        /\ lastError[i] = CallError("parse", i, LastCompleted(i).call)
        /\ lastStatus[i] # NoStatus

\* C7: the snapshot is replaced and the error cleared in one step: every step that
\* changes the cached snapshot of an adapter installs the whole payload of one call,
\* advances lastFetched and leaves no cached error.
C7_AtomicReplace ==
    [][ \A i \in Instances :
          lastStatus'[i] # lastStatus[i]
          => /\ lastError'[i] = NoError
             /\ lastFetched'[i] = lastFetched[i] + 1
             /\ \E n \in 1 .. calls[i] : lastStatus'[i] = Payload(i, n) ]_vars

\* a success was written over a cached error
C7_Witness ==
    \E i \in Instances :
        /\ Len(completed[i]) >= 2
        /\ LastCompleted(i).ok
        /\ ~completed[i][Len(completed[i]) - 1].ok
        /\ lastStatus[i] = Payload(i, LastCompleted(i).call)
        /\ lastError[i] = NoError

\* C8 as stated: a cached snapshot and a cached error are never both present.
C8_SnapshotAndErrorExclusive ==
    \A i \in Instances : ~(lastStatus[i] # NoStatus /\ lastError[i] # NoError)

\* C8 as amended: the cached error is the signal of the latest outcome (present exactly
\* when the call whose cache write came last failed, and then it is that call's error),
\* and the cached snapshot is present exactly when some call has succeeded.
C8_ErrorSignalsLatestOutcome ==
    \A i \in Instances :
        /\ lastError[i] # NoError
             <=> (completed[i] # << >> /\ ~LastCompleted(i).ok)
        /\ lastError[i] # NoError => lastError[i].call = LastCompleted(i).call
        /\ lastStatus[i] # NoStatus <=> LastOkIndex(i) # 0

\* a failure followed a success: snapshot and error are both cached
C8_Witness ==
    \E i \in Instances :
        /\ Len(completed[i]) >= 2
        /\ completed[i][Len(completed[i]) - 1].ok
        /\ ~LastCompleted(i).ok
        /\ lastStatus[i] # NoStatus
        /\ lastError[i] # NoError

\* C9: last successful write wins: the cached snapshot is the payload of the successful
\* call whose cache write came last, whatever the order in which the calls began, and a
\* failing call that completes later leaves it in place.
C9_LastSuccessfulWriteWins ==
    \A i \in Instances :
        lastStatus[i] = IF LastOkIndex(i) = 0 THEN NoStatus
                        ELSE Payload(i, completed[i][LastOkIndex(i)].call)

\* all fetches are over; two of them overlapped and the one begun later wrote first, so
\* the snapshot cached is the one of the call begun earlier; a failing call came after it
C9_Witness ==
    /\ running = {} /\ pendingStatus = 0
    /\ \E i \in Instances :
         \E a, b, c \in 1 .. Len(completed[i]) :
            /\ a < b /\ b < c /\ b = LastOkIndex(i)
            /\ completed[i][a].ok
            /\ completed[i][a].call > completed[i][b].call
            /\ ~completed[i][c].ok
            /\ lastStatus[i] = Payload(i, completed[i][b].call)

----------------------------------------------------------------------------
(* Stopping a follow session *)

\* both reader goroutines of session k have returned and its subprocess is not running
Stopped(k) ==
    /\ k \in SessionIds
    /\ \A st \in Streams : sessions[k].rd[st] \in {"returned", "none"}
    /\ sessions[k].proc # "running"

\* C10: once the context of a session is cancelled, its readers (those blocked in the
\* send on a full channel included) return and its subprocess is terminated, whether
\* or not the consumer ever receives from the channel again.  A cancelled context
\* stays cancelled, so the property is: again and again every session whose context is
\* cancelled is stopped.
C10_StopNeedsNoDraining ==
    []<>(\A k \in SessionIds : sessions[k].done => Stopped(k))

\* a reader gave up a send on a full channel nobody drained, and the session is stopped
C10_Witness ==
    \E k \in SessionIds, st \in Streams :
        /\ sessions[k].done
        /\ Stopped(k)
        /\ sessions[k].ev[st] # NoEvent
        /\ Len(sessions[k].ch) = ChanCap
        /\ receivers[k] > 0

----------------------------------------------------------------------------
(* The refresh tick and the display of fetch results *)

\* C18: exactly one refresh tick is pending at every moment, scheduled at the
\* configured interval or at 1000 ms when the configured value is zero or negative, and
\* every handled tick dispatches one status fetch whatever fetches are outstanding.
C18_TickRecurs ==
    /\ [](/\ Len(pendingTicks) = 1
          /\ pendingTicks[1] = (IF refreshMs > 0 THEN refreshMs ELSE 1000))
    /\ [][ticksLeft' < ticksLeft => pendingStatus' = pendingStatus + 1]_vars

\* with a configured interval that is not positive, a tick was handled while the fetch
\* of Init was still in progress: its own fetch is dispatched and the next tick pending
C18_Witness ==
    /\ refreshMs <= 0
    /\ ticksLeft < MaxTicks
    /\ running # {}
    /\ pendingStatus > 0
    /\ Len(pendingTicks) = 1

\* C19: when the controller handles a status result that carries an error, the
\* connection state becomes not connected with the error's text as last error, and the
\* displayed snapshot is left as it was.
C19_ErrorSurfacedSnapshotKept ==
    [][ \A m \in msgs \ msgs' :
          (m.type = "CLIStatusMsg" /\ m.Error # NoError)
          => /\ openclawStatus' = openclawStatus
             /\ ~connectionState'.Connected
             /\ connectionState'.LastError = ErrorText(m.Error) ]_vars

\* a good snapshot is displayed and the error of a later call is surfaced
C19_Witness ==
    /\ openclawStatus # NoStatus
    /\ ~connectionState.Connected
    /\ connectionState.LastError.text = "failed to parse status JSON"
    /\ connectionState.LastError.inst = openclawStatus.inst
    /\ connectionState.LastError.call > openclawStatus.call

\* C20: every subprocess in progress is attached to a cancellable context: the
\* process of every status or health call in flight has one, as the follow subprocess
\* of every session has.
C20_EveryProcessCancellable ==
    \A f \in running : f.ctx # Nil

----------------------------------------------------------------------------
(* The adapters built from the configuration and how they run the binary *)

IsRemote(c) == c.SSHConfig.present /\ c.SSHConfig.Host # ""

\* how runCommand executes the binary
runCommandMode(c) == IF IsRemote(c) THEN "ssh" ELSE "local"

\* how FollowLogs executes the binary: exec.CommandContext on the adapter's binary
FollowLogsMode(c) == "local"

NoModes == [adapter |-> 0, run |-> "none", follow |-> "none"]

\* App.Init builds the adapters of the configuration
InitCLIAdapters ==
    /\ ret = NoRet
    /\ ret' = << [adapters |-> initCLIAdapters(arg), modes |-> NoModes] >>
    /\ UNCHANGED arg

\* a status fetch and a follow start on adapter i
RunOnAdapter(i) ==
    /\ ret # NoRet
    /\ ret[1].modes = NoModes
    /\ i \in 1 .. Len(ret[1].adapters)
    /\ ret' = << [ret[1] EXCEPT !.modes = [adapter |-> i,
                                          run    |-> runCommandMode(ret[1].adapters[i]),
                                          follow |-> FollowLogsMode(ret[1].adapters[i])]] >>
    /\ UNCHANGED arg

InitAdapters == InitApp(0, 0, 0, DefaultRefreshMs) /\ arg \in InstanceLists /\ ret = NoRet

NextAdapters ==
    \/ InitCLIAdapters /\ UNCHANGED progVars
    \/ \E i \in 1 .. MaxCfgInstances : RunOnAdapter(i) /\ UNCHANGED progVars

SpecAdapters == InitAdapters /\ [][NextAdapters]_vars

\* C21: on an adapter whose instance is remote, the log follow is executed in the same mode
\* as the status and health commands, that is through ssh.
C21_FollowRunsLikeCommands ==
    (ret # NoRet /\ ret[1].modes # NoModes /\ IsRemote(ret[1].adapters[ret[1].modes.adapter]))
        => ret[1].modes.follow = ret[1].modes.run

\* C22: after initCLIAdapters with a non-empty instance list there are as many adapters as
\* instances and adapter i carries the name of instance i.
C22_OneAdapterPerInstance ==
    (ret # NoRet /\ Len(arg) > 0)
        => /\ Len(ret[1].adapters) = Len(arg)
           /\ \A i \in 1 .. Len(ret[1].adapters) : ret[1].adapters[i].InstanceName = arg[i].Name

----------------------------------------------------------------------------
(* The command line runSSHCommand hands to ssh and what the remote shells make of it *)

MaxArgLen == 2          \* characters in an argument of runSSHCommand
MaxArgs   == 2          \* arguments of a runSSHCommand call

\* strings are sequences of characters; "a" is an ordinary character, ";" stands for the
\* operators of the shell, and a word written whole ("bash") is a run of ordinary characters
ArgChars == { "a", " ", "\t", "'", "\"", ";", "\\" }

StringsUpTo(chars, n) == UNION { [1 .. k -> chars] : k \in 0 .. n }

\* strings.Contains(s, c) for a single character c
Contains(s, c) == \E i \in 1 .. Len(s) : s[i] = c

\* strings.ReplaceAll(s, c, repl) for a single character c
RECURSIVE ReplaceAll(_, _, _)
ReplaceAll(s, c, repl) ==
    IF s = << >> THEN << >>
    ELSE (IF Head(s) = c THEN repl ELSE << Head(s) >>) \o ReplaceAll(Tail(s), c, repl)

\* the replacement '\'' for a single quote
QuoteEscape == << "'", "\\", "'", "'" >>

\* shellQuote
shellQuote(s) == << "'" >> \o ReplaceAll(s, "'", QuoteEscape) \o << "'" >>

\* getBinary with no BinaryPath set
Binary == << "openclaw" >>

\* the body of the loop of runSSHCommand: what one argument adds to remoteCmd
EscapeArg(a) ==
    IF Contains(a, " ") \/ Contains(a, "'") \/ Contains(a, "\"")
      THEN << " ", "'" >> \o ReplaceAll(a, "'", QuoteEscape) \o << "'" >>
      ELSE << " " >> \o a

RECURSIVE EscapeArgs(_)
EscapeArgs(args) ==
    IF args = << >> THEN << >> ELSE EscapeArg(Head(args)) \o EscapeArgs(Tail(args))

\* remoteCmd before it is wrapped
RemoteCmd(args) == Binary \o EscapeArgs(args)

\* the last argument of ssh: bash -lc and the quoted remoteCmd
SSHRemoteCommand(args) == << "bash", " ", "-lc", " " >> \o shellQuote(RemoteCmd(args))

\* what a POSIX shell does with a command line: the commands it runs, each the list of its
\* words.  A line that ends inside a quotation is a syntax error.
ShellError == << << << "syntax error" >> >> >>

EndWord(st)    == IF st.inWord THEN Append(st.words, st.cur) ELSE st.words
EndCommand(st) == IF EndWord(st) = << >> THEN st.cmds ELSE Append(st.cmds, EndWord(st))

ShellStart == [mode |-> "plain", cur |-> << >>, inWord |-> FALSE, words |-> << >>, cmds |-> << >>]

\* the shell reads one character
ShellStep(st, ch) ==
    LET add(c, m) == [st EXCEPT !.mode = m, !.cur = Append(@, c), !.inWord = TRUE]
        to(m)     == [st EXCEPT !.mode = m, !.inWord = TRUE]
    IN
    CASE st.mode = "single" -> IF ch = "'" THEN to("plain") ELSE add(ch, "single")
      [] st.mode = "double" ->
           IF ch = "\"" THEN to("plain")
           ELSE IF ch = "\\" THEN to("double escape")
           ELSE add(ch, "double")
      [] st.mode = "double escape" ->
           IF ch \in { "\"", "\\" } THEN add(ch, "double")
           ELSE [st EXCEPT !.mode = "double", !.cur = @ \o << "\\", ch >>]
      [] st.mode = "escape" -> add(ch, "plain")
      [] OTHER ->
           CASE ch \in { " ", "\t" } ->
                  [st EXCEPT !.cur = << >>, !.inWord = FALSE, !.words = EndWord(st)]
             [] ch = ";" ->
                  [st EXCEPT !.cur = << >>, !.inWord = FALSE, !.words = << >>,
                             !.cmds = EndCommand(st)]
             [] ch = "'"  -> to("single")
             [] ch = "\"" -> to("double")
             [] ch = "\\" -> to("escape")
             [] OTHER     -> add(ch, "plain")

\* the shell reads the characters lo .. hi of s, the left half first (no state has an
\* empty mode: the test only fixes the order of evaluation)
RECURSIVE ShellRead(_, _, _, _)
ShellRead(s, lo, hi, st) ==
    IF lo > hi THEN st
    ELSE IF lo = hi THEN ShellStep(st, s[lo])
    ELSE LET mid  == (lo + hi) \div 2
             left == ShellRead(s, lo, mid, st)
         IN  IF left.mode = "" THEN left ELSE ShellRead(s, mid + 1, hi, left)

ShellCommands(s) ==
    LET st == ShellRead(s, 1, Len(s), ShellStart) IN
    IF st.mode \in { "single", "double", "double escape" } THEN ShellError
    ELSE IF st.mode = "escape" THEN EndCommand([st EXCEPT !.cur = Append(@, "\\")])
    ELSE EndCommand(st)

\* sshd gives the command line to the login shell of the remote user, which runs bash -lc
\* with the script as one word; bash then runs the script
RemoteExec(cmdline) ==
    LET outer == ShellCommands(cmdline) IN
    IF Len(outer) = 1 /\ Len(outer[1]) = 3
         /\ outer[1][1] = << "bash" >> /\ outer[1][2] = << "-lc" >>
      THEN ShellCommands(outer[1][3])
      ELSE ShellError

ArgLists == UNION { [1 .. n -> StringsUpTo(ArgChars, MaxArgLen)] : n \in 0 .. MaxArgs }

\* runSSHCommand up to the start of the ssh process, and the commands the remote side runs
RunSSHCommand ==
    /\ ret = NoRet
    /\ ret' = << [remoteCmd |-> SSHRemoteCommand(arg),
                  executed  |-> RemoteExec(SSHRemoteCommand(arg))] >>
    /\ UNCHANGED arg

InitQuote == InitApp(0, 0, 0, DefaultRefreshMs) /\ arg \in ArgLists /\ ret = NoRet

NextQuote == RunSSHCommand /\ UNCHANGED progVars

SpecQuote == InitQuote /\ [][NextQuote]_vars

\* C23: the remote shell runs one command whose words are the binary and then the arguments
\* of the call, each argument one word equal to the original string.
C23_ArgumentsReachRemoteIntact ==
    ret # NoRet => ret[1].executed = << << Binary >> \o arg >>

----------------------------------------------------------------------------
(* What runLocalCommand and runSSHCommand return when the process has ended *)

MaxExitCode == 2        \* largest exit status of the openclaw command
MaxTextLen  == 2        \* characters the process writes to a stream

\* the exit status of ssh itself when it cannot connect or authenticate
SSHErrorExit == 255

WhiteSpace == { " ", "\t", "\n" }

\* strings.TrimSpace
RECURSIVE TrimLeft(_)
TrimLeft(s) == IF s # << >> /\ Head(s) \in WhiteSpace THEN TrimLeft(Tail(s)) ELSE s
RECURSIVE TrimRight(_)
TrimRight(s) ==
    IF s # << >> /\ s[Len(s)] \in WhiteSpace THEN TrimRight(SubSeq(s, 1, Len(s) - 1)) ELSE s
TrimSpace(s) == TrimRight(TrimLeft(s))

StreamTexts == StringsUpTo({ "e", "\n" }, MaxTextLen)

\* what cmd.Output() observes.  "command": the openclaw command ran and exited;
\* "unreachable" and "auth rejected": ssh gave up and exited with its own status, its
\* diagnostic (if any) on stderr; "start failure": the process could not be started.
CommandEvents ==
    { [what |-> "exit", cause |-> "command", code |-> c, stdout |-> o, stderr |-> e] :
        c \in 0 .. MaxExitCode, o \in { << >>, << "o", "\n" >> }, e \in StreamTexts }
ConnectionEvents ==
    { [what |-> "exit", cause |-> cz, code |-> SSHErrorExit, stdout |-> << >>, stderr |-> e] :
        cz \in { "unreachable", "auth rejected" }, e \in StreamTexts }
StartFailure ==
    [what |-> "start failure", cause |-> "start", code |-> 0, stdout |-> << >>, stderr |-> << >>]

ProcessRuns ==
    { [remote |-> FALSE, event |-> ev] : ev \in CommandEvents \cup { StartFailure } }
      \cup
    { [remote |-> TRUE, event |-> ev] :
        ev \in CommandEvents \cup ConnectionEvents \cup { StartFailure } }

\* the (string, error) pairs the two functions return; an error is its format and what the
\* format is filled with
NoErr == [kind |-> "nil", text |-> << >>, code |-> 0]
Failure(kind, text, code) ==
    [out |-> << >>, err |-> [kind |-> kind, text |-> text, code |-> code]]

runLocalCommand(ev) ==
    IF ev.what = "start failure" THEN Failure("exec error", << >>, 0)
    ELSE IF ev.code # 0 THEN Failure("command failed: %s", ev.stderr, 0)
    ELSE [out |-> TrimSpace(ev.stdout), err |-> NoErr]

runSSHCommand(ev) ==
    IF ev.what = "start failure" THEN Failure("SSH connection failed: %w", << >>, 0)
    ELSE IF ev.code # 0
      THEN IF TrimSpace(ev.stderr) # << >>
             THEN Failure("SSH command failed: %s", TrimSpace(ev.stderr), 0)
             ELSE Failure("SSH command failed with exit code %d", << >>, ev.code)
    ELSE [out |-> TrimSpace(ev.stdout), err |-> NoErr]

LocalCommandReturns ==
    /\ ret = NoRet /\ ~arg.remote
    /\ ret' = << runLocalCommand(arg.event) >>
    /\ UNCHANGED arg

SSHCommandReturns ==
    /\ ret = NoRet /\ arg.remote
    /\ ret' = << runSSHCommand(arg.event) >>
    /\ UNCHANGED arg

InitExit == InitApp(0, 0, 0, DefaultRefreshMs) /\ arg \in ProcessRuns /\ ret = NoRet

NextExit ==
    \/ LocalCommandReturns /\ UNCHANGED progVars
    \/ SSHCommandReturns /\ UNCHANGED progVars

SpecExit == InitExit /\ [][NextExit]_vars

\* C24: the error returned when the host is unreachable or the authentication is rejected
\* is of another kind than every error returned when the remote command ran and failed.
C24_ConnectionFailureDistinct ==
    (ret # NoRet /\ arg.remote /\ arg.event.cause \in { "unreachable", "auth rejected" })
        => \A ev \in CommandEvents :
             ev.code # 0 => runSSHCommand(ev).err.kind # ret[1].err.kind

\* C25: a command that exited non-zero returns no output and an error that carries the
\* captured stderr verbatim when stderr is non-empty and names the exit code when it is
\* empty, on a local and on a remote adapter.
C25_NonZeroExitError ==
    (ret # NoRet /\ arg.event.cause = "command" /\ arg.event.code # 0)
        => /\ ret[1].out = << >>
           /\ arg.event.stderr # << >> => ret[1].err.text = arg.event.stderr
           /\ arg.event.stderr = << >> => ret[1].err.code = arg.event.code

----------------------------------------------------------------------------
(* The arguments buildSSHArgs gives to ssh *)

MaxTimeout == 2         \* largest small ConnectTimeout of an ssh section
MaxPort    == 2         \* largest small Port of an ssh section

DefaultConnectTimeout == 10

\* fmt.Sprintf("%d", n)
DigitChars == << "0", "1", "2", "3", "4", "5", "6", "7", "8", "9" >>
RECURSIVE Decimal(_)
Decimal(n) ==
    IF n < 0 THEN << "-" >> \o Decimal(0 - n)
    ELSE IF n < 10 THEN << DigitChars[n + 1] >>
    ELSE Decimal(n \div 10) \o << DigitChars[(n % 10) + 1] >>

\* c.SSHConfig: nil, or a section
NilSSHConfig ==
    [present |-> FALSE, Host |-> << >>, User |-> << >>, Port |-> 0,
     IdentityFile |-> << >>, ProxyJump |-> << >>, ConnectTimeout |-> 0]
SSHConfigs ==
    { NilSSHConfig } \cup
    [ present : { TRUE },
      Host : { << "h" >>, << "r", "@", "h" >> },
      User : { << >>, << "u" >> },
      Port : (-1 .. MaxPort) \cup { 22 },
      IdentityFile : { << >>, << "k" >> },
      ProxyJump : { << >>, << "j" >> },
      ConnectTimeout : (-1 .. MaxTimeout) \cup { 30 } ]

\* the timeout handed to ssh
EffectiveTimeoutAsConfigured(t) == t
EffectiveTimeout(t) == IF t <= 0 THEN DefaultConnectTimeout ELSE t

\* the host argument
HostArg(cfg) ==
    IF cfg.User # << >> /\ ~Contains(cfg.Host, "@")
      THEN cfg.User \o << "@" >> \o cfg.Host
      ELSE cfg.Host

buildSSHArgs(cfg) ==
    IF ~cfg.present THEN << >>
    ELSE << << "-o" >>, << "BatchMode=yes" >>,
            << "-o" >>, << "StrictHostKeyChecking=accept-new" >>,
            << "-o" >>, << "ConnectTimeout=" >> \o Decimal(EffectiveTimeout(cfg.ConnectTimeout)) >>
         \o (IF cfg.Port > 0 THEN << << "-p" >>, Decimal(cfg.Port) >> ELSE << >>)
         \o (IF cfg.IdentityFile # << >> THEN << << "-i" >>, cfg.IdentityFile >> ELSE << >>)
         \o (IF cfg.ProxyJump # << >> THEN << << "-J" >>, cfg.ProxyJump >> ELSE << >>)
         \o << HostArg(cfg) >>

BuildSSHArgs ==
    /\ ret = NoRet
    /\ ret' = << buildSSHArgs(arg) >>
    /\ UNCHANGED arg

InitSSHArgs == InitApp(0, 0, 0, DefaultRefreshMs) /\ arg \in SSHConfigs /\ ret = NoRet

NextSSHArgs == BuildSSHArgs /\ UNCHANGED progVars

SpecSSHArgs == InitSSHArgs /\ [][NextSSHArgs]_vars

\* the option flag followed by value is among the arguments a
HasOption(a, flag, value) ==
    \E i \in 1 .. (Len(a) - 1) : a[i] = << flag >> /\ a[i + 1] = value
NoOption(a, flag) == \A i \in 1 .. Len(a) : a[i] # << flag >>
OptionIff(a, flag, value, wanted) ==
    IF wanted THEN HasOption(a, flag, value) ELSE NoOption(a, flag)
Count(b) == IF b THEN 1 ELSE 0

\* C26: for an ssh section the arguments are batch mode, accept-new and the connect timeout
\* (the configured one when positive, 10 otherwise), then the port, identity and proxy-jump
\* options exactly when they are set, and last the host, prefixed with the user exactly
\* when a user is set and the host holds no '@'.
C26_SSHArguments ==
    (ret # NoRet /\ arg.present) =>
        LET a == ret[1]
            t == IF arg.ConnectTimeout > 0 THEN arg.ConnectTimeout ELSE 10
        IN  /\ Len(a) = 7 + 2 * ( Count(arg.Port > 0) + Count(arg.IdentityFile # << >>)
                                  + Count(arg.ProxyJump # << >>) )
            /\ a[1] = << "-o" >> /\ a[2] = << "BatchMode=yes" >>
            /\ a[3] = << "-o" >> /\ a[4] = << "StrictHostKeyChecking=accept-new" >>
            /\ a[5] = << "-o" >> /\ a[6] = << "ConnectTimeout=" >> \o Decimal(t)
            /\ OptionIff(a, "-p", Decimal(arg.Port), arg.Port > 0)
            /\ OptionIff(a, "-i", arg.IdentityFile, arg.IdentityFile # << >>)
            /\ OptionIff(a, "-J", arg.ProxyJump, arg.ProxyJump # << >>)
            /\ a[Len(a)] = IF arg.User # << >> /\ \A i \in 1 .. Len(arg.Host) : arg.Host[i] # "@"
                             THEN arg.User \o << "@" >> \o arg.Host
                             ELSE arg.Host

\* buildSSHArgs returned for a section with a user, a port and no positive timeout
C26_Witness ==
    /\ ret # NoRet /\ arg.present
    /\ arg.User # << >> /\ arg.Port > 0 /\ arg.ConnectTimeout <= 0
    /\ arg.IdentityFile = << >> /\ arg.ProxyJump # << >>
    /\ Len(ret[1]) = 11

----------------------------------------------------------------------------
(* parseLogLine *)

MaxLineLen == 4         \* symbols in a free-form line of the follow stream

\* A line is a sequence of symbols: a bracket, a white-space character, or a word (a run
\* of letters written whole).  The words that differ from their lower-case form:
UpperLower ==
    { << "DEBUG", "debug" >>, << "Dbg", "dbg" >>, << "INFO", "info" >>, << "Inf", "inf" >>,
      << "WARN", "warn" >>, << "Warning", "warning" >>, << "WRN", "wrn" >>,
      << "ERROR", "error" >>, << "Err", "err" >>, << "FATAL", "fatal" >> }
LowerWords ==
    { "debug", "dbg", "info", "inf", "warn", "warning", "wrn", "error", "err", "fatal" }
LevelWords == LowerWords \cup { p[1] : p \in UpperLower }

\* strings.ToLower on one symbol and on a string
ToLowerNone(w) == w
ToLower(w) == IF \E p \in UpperLower : p[1] = w
                THEN (CHOOSE p \in UpperLower : p[1] = w)[2]
                ELSE w
ToLowerStr(str) == [i \in 1 .. Len(str) |-> ToLower(str[i])]

\* strings.Index(s, c) for a single symbol c, counted from 1; 0 when c is not in s
Index(str, c) ==
    IF Contains(str, c)
      THEN CHOOSE i \in 1 .. Len(str) : str[i] = c /\ \A j \in 1 .. (i - 1) : str[j] # c
      ELSE 0

\* the lines of the stream.  A JSON line is an object whose fields are strings: json.Unmarshal
\* accepts it and fills Time, Level, Msg and Message ("" for a key the object lacks).  Every
\* other line is free-form text.
RFC3339Time == "2024-01-15T10:30:45Z"
TimeTexts   == { "", RFC3339Time, "yesterday" }
MsgTexts    == { << >>, << "x" >>, << " ", "x", " " >> }
ExampleLine == << "[", "WARN", "]", " ", "disk", " ", "low" >>

TextLine(toks) ==
    [json |-> FALSE, toks |-> toks, Time |-> "", Level |-> "", Msg |-> << >>, Message |-> << >>]
JSONLines ==
    [ json : { TRUE }, toks : { << >> }, Time : TimeTexts, Level : LevelWords \cup { "" },
      Msg : MsgTexts, Message : MsgTexts ]
TaggedLines ==
    { pre \o << "[", w, "]" >> \o post :
        pre  \in { << >>, << " " >>, << "x", " " >> },
        w    \in LevelWords \cup { "x" },
        post \in { << >>, << " ", "x" >>, << "x", " " >>, << " ", "disk", " ", "low" >> } }
FreeLines == StringsUpTo({ "[", "]", " ", "x", "WARN" }, MaxLineLen)
LogLines  == JSONLines \cup { TextLine(t) : t \in TaggedLines \cup FreeLines }

\* time.Now() when the line is parsed
Now == "now"

\* the message of a JSON line: msg, else message
JSONMessageMsgOnly(j) == j.Msg
JSONMessage(j) ==
    IF j.Msg # << >> THEN j.Msg
    ELSE IF j.Message # << >> THEN j.Message
    ELSE << >>

\* the switch over the bracketed tag; the level stays "info" for any other tag
TagLevel(tag) ==
    CASE tag \in { << "debug" >>, << "dbg" >> } -> "debug"
      [] tag \in { << "info" >>, << "inf" >> } -> "info"
      [] tag \in { << "warn" >>, << "warning" >>, << "wrn" >> } -> "warn"
      [] tag \in { << "error" >>, << "err" >> } -> "error"
      [] OTHER -> "info"

parseLogLine(line, now) ==
    IF line.json
      THEN [ Timestamp |-> IF line.Time # "" /\ line.Time = RFC3339Time THEN line.Time ELSE now,
             Level     |-> IF line.Level # "" THEN ToLower(line.Level) ELSE "info",
             Message   |-> JSONMessage(line),
             Raw       |-> line ]
    ELSE LET trimmed == TrimSpace(line.toks)
             idx     == Index(trimmed, "[")
             endIdx  == IF idx = 0 THEN 0
                        ELSE Index(SubSeq(trimmed, idx, Len(trimmed)), "]")
         IN  IF idx # 0 /\ endIdx # 0
               THEN [ Timestamp |-> now,
                      Level     |-> TagLevel(ToLowerStr(SubSeq(trimmed, idx + 1, idx + endIdx - 2))),
                      Message   |-> TrimSpace(SubSeq(trimmed, idx + endIdx, Len(trimmed))),
                      Raw       |-> line ]
               ELSE [ Timestamp |-> now, Level |-> "info", Message |-> trimmed, Raw |-> line ]

ParseLogLine ==
    /\ ret = NoRet
    /\ ret' = << parseLogLine(arg, Now) >>
    /\ UNCHANGED arg

InitParse == InitApp(0, 0, 0, DefaultRefreshMs) /\ arg \in LogLines /\ ret = NoRet

NextParse == ParseLogLine /\ UNCHANGED progVars

SpecParse == InitParse /\ [][NextParse]_vars

\* the level texts of each severity, in the spellings of LevelWords
Severities == { "debug", "info", "warn", "error" }
DebugTexts == { "debug", "DEBUG", "dbg", "Dbg" }
InfoTexts  == { "info", "INFO", "inf", "Inf" }
WarnTexts  == { "warn", "WARN", "warning", "Warning", "wrn", "WRN" }
ErrorTexts == { "error", "ERROR", "err", "Err" }
SeverityOf(w) ==
    CASE w \in DebugTexts -> "debug"
      [] w \in InfoTexts  -> "info"
      [] w \in WarnTexts  -> "warn"
      [] w \in ErrorTexts -> "error"
      [] OTHER -> "info"

\* C27: the level of a JSON line with a level text is one of debug, info, warn and error:
\* the severity the text spells, whatever its case, abbreviated or not, 'warning' being warn.
C27_JSONLevelNormalised ==
    (ret # NoRet /\ arg.json /\ arg.Level # "")
        => /\ ret[1].Level \in Severities
           /\ arg.Level \in DebugTexts \cup InfoTexts \cup WarnTexts \cup ErrorTexts
                => ret[1].Level = SeverityOf(arg.Level)

\* C28: a JSON line whose message is under one of the keys msg and message parses to the
\* same level, message and timestamp as the line with the message under the other key.
C28_MsgKeyEquivalence ==
    (ret # NoRet /\ arg.json /\ (arg.Msg = << >> \/ arg.Message = << >>))
        => LET other == parseLogLine([arg EXCEPT !.Msg = arg.Message, !.Message = arg.Msg], Now)
           IN  /\ other.Level = ret[1].Level
               /\ other.Message = ret[1].Message
               /\ other.Timestamp = ret[1].Timestamp

\* a JSON line with its text under message only was parsed and the text is its message
C28_Witness ==
    /\ ret # NoRet /\ arg.json
    /\ arg.Msg = << >> /\ arg.Message = << "x" >> /\ arg.Time = RFC3339Time
    /\ ret[1].Message = << "x" >> /\ ret[1].Timestamp = RFC3339Time

\* the line holds an opening bracket with a closing bracket after it
Bracketed(toks) ==
    \E i \in 1 .. Len(toks) : \E j \in (i + 1) .. Len(toks) : toks[i] = "[" /\ toks[j] = "]"

\* C29: a free-form line without a bracketed token, white space at its ends included, gets
\* the level info and a message equal to the whole line.
C29_PlainLineKeptWhole ==
    (ret # NoRet /\ ~arg.json /\ ~Bracketed(arg.toks))
        => ret[1].Level = "info" /\ ret[1].Message = arg.toks

\* m is s without the white space at its two ends
IsTrimOf(m, str) ==
    /\ m # << >> => (m[1] \notin WhiteSpace /\ m[Len(m)] \notin WhiteSpace)
    /\ \E i \in 0 .. Len(str) : \E j \in i .. Len(str) :
          /\ m = SubSeq(str, i + 1, j)
          /\ \A k \in 1 .. i : str[k] \in WhiteSpace
          /\ \A k \in (j + 1) .. Len(str) : str[k] \in WhiteSpace

\* C30: a free-form line with a bracketed token gets the severity its first bracketed token
\* spells (info when it spells none) and the trimmed text after the closing bracket as its
\* message; '[WARN] disk low' gives warn and 'disk low'.
C30_BracketedTag ==
    (ret # NoRet /\ ~arg.json /\ Bracketed(arg.toks))
        => LET toks  == arg.toks
               open  == CHOOSE i \in 1 .. Len(toks) :
                           toks[i] = "[" /\ \A k \in 1 .. (i - 1) : toks[k] # "["
               close == CHOOSE j \in (open + 1) .. Len(toks) :
                           toks[j] = "]" /\ \A k \in (open + 1) .. (j - 1) : toks[k] # "]"
           IN  /\ ret[1].Level = IF close = open + 2 THEN SeverityOf(toks[open + 1]) ELSE "info"
               /\ IsTrimOf(ret[1].Message, SubSeq(toks, close + 1, Len(toks)))
               /\ toks = ExampleLine
                    => ret[1].Level = "warn" /\ ret[1].Message = << "disk", " ", "low" >>

\* '[WARN] disk low' was parsed
C30_Witness ==
    /\ ret # NoRet /\ ~arg.json /\ arg.toks = ExampleLine
    /\ ret[1].Level = "warn" /\ ret[1].Message = << "disk", " ", "low" >>

----------------------------------------------------------------------------
(* The log buffer under the values LogTailLines can take *)

MaxTailLines == 3       \* lines written in a run of the buffer specification

\* values of UI.LogTailLines in the configuration file
TailValues == -1 .. LogTailLines

InitTail ==
    \E tail \in TailValues :
        InitAppWith(0, MaxTailLines, 0, DefaultRefreshMs, tail) /\ arg = NoArg /\ ret = NoRet

\* one follow session, its readers, the receiving commands and the controller
NextTail ==
    \/ \E launched \in BOOLEAN : NoHist(StartLogFollowing(launched))
    \/ NoHist(WaitForCLILog)
    \/ \E k \in SessionIds : NoHist(SelectEvent(k))
    \/ \E k \in SessionIds, st \in Streams : NoHist(SessionStep(ReaderScan(k, st)))
    \/ \E k \in SessionIds, st \in Streams : NoHist(SessionStep(ReaderSend(k, st)))
    \/ \E m \in msgs : NoHist(UpdateCLILogMsg(m))

SpecTail == InitTail /\ [][NextTail]_vars

\* the number of events the buffer may hold
TailCap == IF logTailLines > 0 THEN logTailLines ELSE 0

\* C31: the log buffer never holds more than LogTailLines events (none when LogTailLines
\* is not positive), and handling a log message leaves the old buffer followed by the new
\* event, without its first event when that would exceed the bound.
C31_LogBufferBounded ==
    /\ [](Len(logs) <= TailCap)
    /\ [][ \A m \in msgs \ msgs' :
             m.type = "CLILogMsg"
             => LET all     == Append(logs, m.Event)
                    dropped == Len(all) - Len(logs')
                IN  /\ dropped \in { 0, 1 }
                    /\ dropped = 1 <=> Len(all) > TailCap
                    /\ logs' = SubSeq(all, dropped + 1, Len(all)) ]_vars

\* every line of the run went through a full buffer: the oldest one was dropped
C31_Witness ==
    /\ logTailLines = LogTailLines /\ Len(logs) = LogTailLines
    /\ \A i \in 1 .. Len(logs) :
          logs[i].src = "stdout" /\ logs[i].n = MaxTailLines - LogTailLines + i

----------------------------------------------------------------------------
(* The goroutines a stop leaves behind *)

\* C32: a drain goroutine of stopLogFollowing ranges only over the channel of a session
\* that was cancelled, never over the channel of a session started after the stop.
C32_DrainOnlyCancelledSession ==
    \A k \in SessionIds : drainers[k] > 0 => sessions[k].done

\* C33: at most one receive command (the select of startLogFollowing or of waitForCLILog)
\* is blocked on the channel of a session at any moment.
C33_OneReceiverPerChannel ==
    \A k \in SessionIds : receivers[k] <= 1

\* one follow session whose subprocess ends by itself: no key is pressed
NextSelfExit ==
    \/ \E launched \in BOOLEAN : NoHist(StartLogFollowing(launched))
    \/ NoHist(WaitForCLILog)
    \/ \E k \in SessionIds : NoHist(SelectEvent(k))
    \/ \E k \in SessionIds, st \in Streams : NoHist(SessionStep(ReaderScan(k, st)))
    \/ \E k \in SessionIds, st \in Streams : NoHist(SessionStep(ReaderSend(k, st)))
    \/ \E k \in SessionIds, st \in Streams : NoHist(SessionStep(ReaderEOF(k, st)))
    \/ \E k \in SessionIds : NoHist(SessionStep(ProcessExit(k)))
    \/ \E m \in msgs : NoHist(UpdateCLILogMsg(m))

SpecSelfExit == InitFollow /\ [][NextSelfExit]_vars

\* C34: once the subprocess of the current session has ended by itself and no goroutine,
\* command or handler has a step left to take, the follow is not marked running and no
\* receive command is blocked on the session's channel.
C34_SelfExitNoticed ==
    \A k \in SessionIds :
        (k = logChan /\ sessions[k].proc = "exited" /\ ~ENABLED NextSelfExit)
            => ~logFollowing /\ receivers[k] = 0

\* the channel of session k can never deliver again: it is empty and both goroutines that
\* send on it have returned (nothing closes it)
ChannelSilent(k) ==
    /\ sessions[k].ch = << >>
    /\ \A st \in Streams : sessions[k].rd[st] = "returned"

\* C35: the drain goroutine of a stop terminates: once the channel it ranges over can never
\* deliver again, no drain goroutine is left blocked on it.
C35_DrainGoroutineEnds ==
    \A k \in SessionIds : (sessions[k].done /\ ChannelSilent(k)) => drainers[k] = 0

----------------------------------------------------------------------------
(* The selected index and the adapter list under every configuration *)

\* the configurations whose adapters the per-instance records of the model can hold
NavConfigs == { insts \in InstanceLists : Len(insts) <= NumInstances }

InitNav ==
    /\ \E insts \in NavConfigs :
           InitAppOn(MaxNavKeys, 0, 0, DefaultRefreshMs, LogTailLines, insts)
    /\ arg = NoArg /\ ret = NoRet

\* the keys, and the commands that resolve the adapter when they run (the follow
\* subprocess starts: a failed start resolves the adapter the same way)
NextNav ==
    \/ NoHist(KeyUp)
    \/ NoHist(KeyDown)
    \/ NoHist(KeyReconnect)
    \/ NoHist(KeyTab)
    \/ NoHist(KeyEnter)
    \/ NoHist(FetchCLIStatusBegin)
    \/ NoHist(StartLogFollowing(TRUE))

SpecNav == InitNav /\ [][NextNav]_vars

\* C36: the adapter list is never empty and the selected index is always one of its
\* indices; every fetch that begins and every follow session that starts is made on the
\* adapter at the selected index.
C36_SelectedIndexValid ==
    /\ [](Len(cliAdapters) >= 1 /\ selectedInstance \in 0 .. (Len(cliAdapters) - 1))
    /\ [][ /\ \A f \in running' \ running : f.inst = selectedInstance
           /\ Len(sessions') > Len(sessions)
                  => sessions'[Len(sessions')].inst = selectedInstance ]_vars

\* the last of several adapters is selected; a fetch and a follow session were made on it
C36_Witness ==
    /\ Len(cliAdapters) > 1 /\ selectedInstance = Len(cliAdapters) - 1
    /\ \E f \in running : f.inst = selectedInstance
    /\ \E k \in SessionIds : sessions[k].inst = selectedInstance

----------------------------------------------------------------------------
(* The connection state across a switch *)

\* C37: the error text of the connection state, which drives the badge of the selected
\* instance, stems from a fetch made on the adapter of the selected instance.
C37_ConnectionStateOfSelected ==
    connectionState.LastError.text # "" => connectionState.LastError.inst = selectedInstance

----------------------------------------------------------------------------
(* The text parseLogLine keeps *)

\* the line holds text: a JSON document, or a character that is not white space
HoldsText(line) == line.json \/ \E i \in 1 .. Len(line.toks) : line.toks[i] \notin WhiteSpace

\* C38: the event of every line that holds text has a non-empty message, a JSON line with
\* neither message key and a line that is only a bracketed tag included.
C38_MessageNeverEmpty ==
    (ret # NoRet /\ HoldsText(arg)) => ret[1].Message # << >>

====
